---- MODULE Spec2Model ----
(***************************************************************************)
(* Model of textureAtlas2files.py: extraction of the SubTexture regions of *)
(* a texture atlas into individual .png files, and the optional packing of *)
(* the .png files of the output directory into one grid sprite sheet.      *)
(*                                                                         *)
(* File names and prompt answers are sequences of one-character strings.   *)
(* XML attribute values are strings, converted with IntOf as int() does.   *)
(* An image is a record: its pixel size, whether it decodes, and what its  *)
(* pixels are (the cropped rectangle, or the list of files pasted).        *)
(***************************************************************************)
EXTENDS Integers, Sequences, FiniteSets, TLC

MaxRecords == 2      \* SubTexture elements per descriptor
MaxRuns == 2         \* invocations of the script on the same arguments
MaxStale == 2        \* files already in the output directory before the first run
MaxFiles == 17       \* listed files in the grid computations
MaxNameLen == 5      \* characters of a record name in the name normalisation

VARIABLES
  xml,          \* the descriptor file: [wellformed, subs]
  dir,          \* the output directory: file name -> image
  pc,           \* position of the script
  runs,         \* invocations started
  flag,         \* args.export_spritesheet
  idx,          \* loop position (extraction: record, packing: file), 1-based
  answer,       \* text returned by input()
  prompted,     \* input() was called in this run
  files,        \* subtexture_files: the listing used by the packing
  shape,        \* [cols, rows]: num_columns, num_rows
  cell,         \* [w, h]: largest_width, largest_height
  placed,       \* pastes done on the canvas so far: [name, x, y, w, h]
  crashAt,      \* where this run raised: "none", "parse", "record", "maxdims", "grid", "paste"
  dir0,         \* output directory when this run started
  dirPack,      \* output directory when generate_sprite_sheet was entered
  writes,       \* file names written by extraction in this run, in order
  sheetWrites,  \* sprite_sheet.save calls in this run
  extractOk,    \* extract_subtextures returned in this run
  packStarted,  \* generate_sprite_sheet was entered in this run
  prev,         \* [valid, d]: directory left by the previous run when it only extracted
  g,            \* grid computation on its own: [pc, n, lw, lh, cols, rows, i, cells]
  nm            \* name normalisation on its own: [pc, name, out, outPng]

mainVars == <<xml, dir, pc, runs, flag, idx, answer, prompted, files, shape, cell,
              placed, crashAt, dir0, dirPack, writes, sheetWrites, extractOk,
              packStarted, prev>>
vars == <<mainVars, g, nm>>

(***************************************************************************)
(* Strings                                                                 *)
(***************************************************************************)
Png == <<".", "p", "n", "g">>

\* str.endswith
EndsWith(s, suffix) ==
  /\ Len(s) >= Len(suffix)
  /\ SubSeq(s, Len(s) - Len(suffix) + 1, Len(s)) = suffix

LowerChar(c) ==
  CASE c = "Y" -> "y"
    [] c = "E" -> "e"
    [] c = "S" -> "s"
    [] c = "N" -> "n"
    [] OTHER -> c

\* str.lower
Lower(s) == [k \in 1..Len(s) |-> LowerChar(s[k])]

\* os.path.splitext(name)[0]: the name up to its last dot, a leading dot kept
RECURSIVE LastDot(_, _)
LastDot(s, k) == IF k = 0 THEN 0 ELSE IF s[k] = "." THEN k ELSE LastDot(s, k - 1)

SplitExtRoot(s) ==
  LET d == LastDot(s, Len(s))
  IN IF d <= 1 THEN s ELSE SubSeq(s, 1, d - 1)

ConvertedSuffix == <<"_", "c", "o", "n", "v", "e", "r", "t", "e", "d">> \o Png

\* os.path.basename(args.atlas_image)
AtlasFile == <<"t">> \o Png

ConvertedName(original) == SplitExtRoot(original) \o ConvertedSuffix

\* the mutant: the suffix is appended to every name
NormalizeAlways(name) == name \o Png

\* lines 49-50: if not name.endswith(".png"): name += ".png"
Normalize(name) == IF ~EndsWith(name, Png) THEN name \o Png ELSE name

(***************************************************************************)
(* The descriptor                                                          *)
(***************************************************************************)
Missing == "<none>"                  \* Element.get of an absent attribute: None
NoName == <<Missing>>
IntText == [n \in 0..3 |-> ToString(n)]

\* int(text): the texts it accepts
IsInt(t) == \E n \in DOMAIN IntText : IntText[n] = t
IntOf(t) == CHOOSE n \in DOMAIN IntText : IntText[n] = t

NameTexts == {<<"a">>, <<"a">> \o Png, <<"b">>, NoName}
XTexts == {"0"}
YTexts == {"0"}
WidthTexts == {"1"}
HeightTexts == {"1", "2", "abc"}

SubTextures ==
  [name : NameTexts, x : XTexts, y : YTexts, width : WidthTexts, height : HeightTexts]

RECURSIVE SeqsUpTo(_, _)
SeqsUpTo(S, n) ==
  IF n = 0 THEN {<<>>}
  ELSE LET shorter == SeqsUpTo(S, n - 1)
       IN shorter \cup {Append(s, e) : s \in {t \in shorter : Len(t) = n - 1}, e \in S}

Malformed == [wellformed |-> FALSE, subs |-> <<>>]
Descriptors ==
  {Malformed} \cup {[wellformed |-> TRUE, subs |-> s] : s \in SeqsUpTo(SubTextures, MaxRecords)}

\* lines 39-43 and 49: what makes the loop body raise before it saves
RecordOk(r) ==
  /\ IsInt(r.x) /\ IsInt(r.y) /\ IsInt(r.width) /\ IsInt(r.height)
  /\ r.name # NoName

\* line 46: atlas_image.crop((x, y, x + width, y + height))
Crop(r) ==
  [w |-> IntOf(r.width), h |-> IntOf(r.height), ok |-> TRUE,
   kind |-> "crop", x |-> IntOf(r.x), y |-> IntOf(r.y)]

Max(a, b) == IF a >= b THEN a ELSE b

RECURSIVE LargestOf(_, _, _)
LargestOf(subs, k, acc) ==
  IF k > Len(subs) THEN acc
  ELSE LargestOf(subs, k + 1,
                 [w |-> Max(acc.w, IntOf(subs[k].width)),
                  h |-> Max(acc.h, IntOf(subs[k].height))])

\* lines 57-75: get_max_width_height_from_xml reads width and height only
MaxDimsOk(d) ==
  /\ d.wellformed
  /\ \A k \in 1..Len(d.subs) : IsInt(d.subs[k].width) /\ IsInt(d.subs[k].height)
MaxDims(d) == LargestOf(d.subs, 1, [w |-> 0, h |-> 0])

(***************************************************************************)
(* The output directory                                                    *)
(***************************************************************************)
EmptyDir == [f \in {} |-> 0]

\* the mutant: an existing file is kept and the image goes to a fresh name
SaveKeeping(d, name, img) ==
  LET target == IF name \in DOMAIN d THEN name \o Png ELSE name
  IN [f \in DOMAIN d \cup {target} |-> IF f = target THEN img ELSE d[f]]

\* Image.save(os.path.join(output_dir, name)): creates or overwrites
Save(d, name, img) ==
  [f \in DOMAIN d \cup {name} |-> IF f = name THEN img ELSE d[f]]

StaleImage(w, h, ok) ==
  [w |-> w, h |-> h, ok |-> ok, kind |-> "stale", x |-> 0, y |-> 0]

\* what may lie in the directory before the first run (os.makedirs, exist_ok)
StaleFiles ==
  << [name |-> <<"z">> \o Png, img |-> StaleImage(2, 2, TRUE)],
     [name |-> <<"q">> \o Png, img |-> StaleImage(1, 1, FALSE)],
     [name |-> <<"r", ".", "t", "x", "t">>, img |-> StaleImage(1, 1, FALSE)],
     [name |-> <<"s">> \o Png, img |-> StaleImage(1, 1, TRUE)] >>

StaleDir(k) ==
  [f \in {StaleFiles[j].name : j \in 1..k} |->
     (CHOOSE e \in {StaleFiles[j] : j \in 1..k} : e.name = f).img]

InitDirs == {StaleDir(k) : k \in 0..(IF MaxStale <= Len(StaleFiles) THEN MaxStale ELSE Len(StaleFiles))}

\* line 81: the .png files of os.listdir(output_dir)
PngFiles(d) == {f \in DOMAIN d : EndsWith(f, Png)}

\* os.listdir returns the entries in arbitrary order
Listings(d) ==
  LET S == PngFiles(d)
      n == Cardinality(S)
  IN {s \in [1..n -> S] : \A i, j \in 1..n : i # j => s[i] # s[j]}

(***************************************************************************)
(* The grid                                                                *)
(***************************************************************************)
\* int(n ** 0.5)
IntSqrt(n) == CHOOSE r \in 0..n : r * r <= n /\ (r + 1) * (r + 1) > n

\* the mutant: the "+ 1" of the second dimension is left out
GridShapeExact(n, lw, lh) ==
  LET first == IntSqrt(n)
  IN IF first = 0 THEN [ok |-> FALSE, cols |-> 0, rows |-> 0]
     ELSE IF lw >= lh THEN [ok |-> TRUE, cols |-> first, rows |-> n \div first]
     ELSE [ok |-> TRUE, cols |-> n \div first, rows |-> first]

\* lines 84-89; ok is FALSE where the floor division raises ZeroDivisionError
GridShape(n, lw, lh) ==
  LET first == IntSqrt(n)
  IN IF first = 0 THEN [ok |-> FALSE, cols |-> 0, rows |-> 0]
     ELSE IF lw >= lh THEN [ok |-> TRUE, cols |-> first, rows |-> (n \div first) + 1]
     ELSE [ok |-> TRUE, cols |-> (n \div first) + 1, rows |-> first]

\* the mutant: column-major, the quotient taken for x and the remainder for y
PastePosTransposed(i, cols, lw, lh) ==
  [x |-> (i \div cols) * lw, y |-> (i % cols) * lh]

\* lines 102-103, i counted from 0
PastePos(i, cols, lw, lh) ==
  [x |-> (i % cols) * lw, y |-> (i \div cols) * lh]

(***************************************************************************)
(* The script, run MaxRuns times on the same arguments                     *)
(***************************************************************************)
Answers == {<<"y">>, <<"Y">>, <<"n">>, <<>>, <<"y", "e", "s">>}

NoPrev == [valid |-> FALSE, d |-> EmptyDir]
NoShape == [cols |-> 0, rows |-> 0]
NoCell == [w |-> 0, h |-> 0]
GIdle == [pc |-> "off", n |-> 0, lw |-> 0, lh |-> 0, cols |-> 0, rows |-> 0,
          i |-> 0, cells |-> <<>>]
NmIdle == [pc |-> "off", name |-> <<>>, out |-> <<>>, outPng |-> <<>>]

Init ==
  /\ xml \in Descriptors
  /\ dir \in InitDirs
  /\ pc = "idle"
  /\ runs = 0
  /\ flag = FALSE
  /\ idx = 1
  /\ answer = <<>>
  /\ prompted = FALSE
  /\ files = <<>>
  /\ shape = NoShape
  /\ cell = NoCell
  /\ placed = <<>>
  /\ crashAt = "none"
  /\ dir0 = dir
  /\ dirPack = dir
  /\ writes = <<>>
  /\ sheetWrites = 0
  /\ extractOk = FALSE
  /\ packStarted = FALSE
  /\ prev = NoPrev
  /\ g = GIdle
  /\ nm = NmIdle

\* lines 116-125 and 28-35: the arguments are parsed, extract_subtextures is
\* entered, the directory is made and the descriptor is parsed
StartRun ==
  /\ pc \in {"idle", "done", "crashed"}
  /\ runs < MaxRuns
  /\ runs' = runs + 1
  /\ \E f \in BOOLEAN : flag' = f
  /\ prev' = IF pc = "done" /\ ~packStarted THEN [valid |-> TRUE, d |-> dir] ELSE NoPrev
  /\ idx' = 1
  /\ answer' = <<>>
  /\ prompted' = FALSE
  /\ files' = <<>>
  /\ shape' = NoShape
  /\ cell' = NoCell
  /\ placed' = <<>>
  /\ dir0' = dir
  /\ dirPack' = dir
  /\ writes' = <<>>
  /\ sheetWrites' = 0
  /\ extractOk' = FALSE
  /\ packStarted' = FALSE
  /\ IF xml.wellformed
       THEN pc' = "extract" /\ crashAt' = "none"
       ELSE pc' = "crashed" /\ crashAt' = "parse"
  /\ UNCHANGED <<xml, dir, g, nm>>

\* lines 38-53: one iteration of the loop over the SubTexture elements
ExtractRecord ==
  /\ pc = "extract"
  /\ idx <= Len(xml.subs)
  /\ LET r == xml.subs[idx]
     IN IF RecordOk(r)
          THEN /\ dir' = Save(dir, Normalize(r.name), Crop(r))
               /\ writes' = Append(writes, Normalize(r.name))
               /\ idx' = idx + 1
               /\ UNCHANGED <<pc, crashAt>>
          ELSE /\ pc' = "crashed"
               /\ crashAt' = "record"
               /\ UNCHANGED <<dir, writes, idx>>
  /\ UNCHANGED <<xml, runs, flag, answer, prompted, files, shape, cell, placed, dir0,
                 dirPack, sheetWrites, extractOk, packStarted, prev, g, nm>>

\* line 55: the loop is over and extract_subtextures returns
ExtractReturn ==
  /\ pc = "extract"
  /\ idx > Len(xml.subs)
  /\ extractOk' = TRUE
  /\ pc' = "main"
  /\ UNCHANGED <<xml, dir, runs, flag, idx, answer, prompted, files, shape, cell, placed,
                 crashAt, dir0, dirPack, writes, sheetWrites, packStarted, prev, g, nm>>

\* lines 128-129
ExportFlag ==
  /\ pc = "main"
  /\ flag
  /\ pc' = "pack"
  /\ packStarted' = TRUE
  /\ dirPack' = dir
  /\ UNCHANGED <<xml, dir, runs, flag, idx, answer, prompted, files, shape, cell, placed,
                 crashAt, dir0, writes, sheetWrites, extractOk, prev, g, nm>>

\* the mutant: the answer is compared as typed
PromptAnswerExact ==
  /\ pc = "main"
  /\ ~flag
  /\ \E a \in Answers :
       /\ answer' = a
       /\ IF a = <<"y">>
            THEN pc' = "pack" /\ packStarted' = TRUE
            ELSE pc' = "done" /\ UNCHANGED packStarted
  /\ prompted' = TRUE
  /\ dirPack' = dir
  /\ UNCHANGED <<xml, dir, runs, flag, idx, files, shape, cell, placed, crashAt, dir0,
                 writes, sheetWrites, extractOk, prev, g, nm>>

\* lines 130-134
PromptAnswer ==
  /\ pc = "main"
  /\ ~flag
  /\ \E a \in Answers :
       /\ answer' = a
       /\ IF Lower(a) = <<"y">>
            THEN pc' = "pack" /\ packStarted' = TRUE
            ELSE pc' = "done" /\ UNCHANGED packStarted
  /\ prompted' = TRUE
  /\ dirPack' = dir
  /\ UNCHANGED <<xml, dir, runs, flag, idx, files, shape, cell, placed, crashAt, dir0,
                 writes, sheetWrites, extractOk, prev, g, nm>>

\* lines 78-96: the largest dimensions, the listing, the grid and the canvas
PackGrid ==
  /\ pc = "pack"
  /\ IF ~MaxDimsOk(xml)
       THEN /\ pc' = "crashed"
            /\ crashAt' = "maxdims"
            /\ UNCHANGED <<files, shape, cell>>
       ELSE \E listing \in Listings(dir) :
              LET largest == MaxDims(xml)
                  grid == GridShape(Len(listing), largest.w, largest.h)
              IN /\ files' = listing
                 /\ cell' = largest
                 /\ IF grid.ok
                      THEN /\ shape' = [cols |-> grid.cols, rows |-> grid.rows]
                           /\ pc' = "paste"
                           /\ UNCHANGED crashAt
                      ELSE /\ pc' = "crashed"
                           /\ crashAt' = "grid"
                           /\ UNCHANGED shape
  /\ idx' = 1
  /\ placed' = <<>>
  /\ UNCHANGED <<xml, dir, runs, flag, answer, prompted, dir0, dirPack, writes,
                 sheetWrites, extractOk, packStarted, prev, g, nm>>

\* the canvas as an image: its size, and the files pasted on it
Sheet(sh, c, names) ==
  [w |-> c.w * sh.cols, h |-> c.h * sh.rows, ok |-> TRUE,
   kind |-> "sheet", x |-> 0, y |-> Len(names)]

\* the mutant: the sheet is saved after every paste
PasteFileSaving ==
  /\ pc = "paste"
  /\ idx <= Len(files)
  /\ LET img == dir[files[idx]]
         at == PastePos(idx - 1, shape.cols, cell.w, cell.h)
     IN IF img.ok
          THEN /\ placed' = Append(placed, [name |-> files[idx], x |-> at.x, y |-> at.y,
                                            w |-> img.w, h |-> img.h])
               /\ idx' = idx + 1
               /\ dir' = Save(dir, ConvertedName(AtlasFile),
                              Sheet(shape, cell, SubSeq(files, 1, idx)))
               /\ sheetWrites' = sheetWrites + 1
               /\ UNCHANGED <<pc, crashAt>>
          ELSE /\ pc' = "crashed"
               /\ crashAt' = "paste"
               /\ UNCHANGED <<placed, idx, dir, sheetWrites>>
  /\ UNCHANGED <<xml, runs, flag, answer, prompted, files, shape, cell, dir0, dirPack,
                 writes, extractOk, packStarted, prev, g, nm>>

\* lines 98-106: one iteration of the paste loop; Image.open raises on a file
\* that is not an image
PasteFile ==
  /\ pc = "paste"
  /\ idx <= Len(files)
  /\ LET img == dir[files[idx]]
         at == PastePos(idx - 1, shape.cols, cell.w, cell.h)
     IN IF img.ok
          THEN /\ placed' = Append(placed, [name |-> files[idx], x |-> at.x, y |-> at.y,
                                            w |-> img.w, h |-> img.h])
               /\ idx' = idx + 1
               /\ UNCHANGED <<pc, crashAt>>
          ELSE /\ pc' = "crashed"
               /\ crashAt' = "paste"
               /\ UNCHANGED <<placed, idx>>
  /\ UNCHANGED <<xml, dir, runs, flag, answer, prompted, files, shape, cell, dir0, dirPack,
                 writes, sheetWrites, extractOk, packStarted, prev, g, nm>>

\* lines 108-112: the sheet is saved once the loop is over
SaveSheet ==
  /\ pc = "paste"
  /\ idx > Len(files)
  /\ dir' = Save(dir, ConvertedName(AtlasFile), Sheet(shape, cell, files))
  /\ sheetWrites' = sheetWrites + 1
  /\ pc' = "done"
  /\ UNCHANGED <<xml, runs, flag, idx, answer, prompted, files, shape, cell, placed,
                 crashAt, dir0, dirPack, writes, extractOk, packStarted, prev, g, nm>>

Next ==
  \/ StartRun
  \/ ExtractRecord
  \/ ExtractReturn
  \/ ExportFlag
  \/ PromptAnswer
  \/ PackGrid
  \/ PasteFile
  \/ SaveSheet

Spec == Init /\ [][Next]_vars

(***************************************************************************)
(* generate_sprite_sheet's grid and placement for n listed files: the      *)
(* largest dimensions are (0, 0) for a descriptor without records and at   *)
(* least (1, 1) otherwise                                                  *)
(***************************************************************************)
GridDims == {<<0, 0>>} \cup ({1, 2, 3} \X {1, 2, 3})

InitMainIdle ==
  /\ xml = [wellformed |-> TRUE, subs |-> <<>>]
  /\ dir = EmptyDir
  /\ pc = "idle"
  /\ runs = 0
  /\ flag = FALSE
  /\ idx = 1
  /\ answer = <<>>
  /\ prompted = FALSE
  /\ files = <<>>
  /\ shape = NoShape
  /\ cell = NoCell
  /\ placed = <<>>
  /\ crashAt = "none"
  /\ dir0 = dir
  /\ dirPack = dir
  /\ writes = <<>>
  /\ sheetWrites = 0
  /\ extractOk = FALSE
  /\ packStarted = FALSE
  /\ prev = NoPrev

InitGrid ==
  /\ InitMainIdle
  /\ nm = NmIdle
  /\ \E n \in 0..MaxFiles, d \in GridDims :
       g = [pc |-> "in", n |-> n, lw |-> d[1], lh |-> d[2], cols |-> 0, rows |-> 0,
            i |-> 0, cells |-> <<>>]

\* lines 84-96
GridCompute ==
  /\ g.pc = "in"
  /\ LET grid == GridShape(g.n, g.lw, g.lh)
     IN g' = IF grid.ok
               THEN [g EXCEPT !.pc = "place", !.cols = grid.cols, !.rows = grid.rows]
               ELSE [g EXCEPT !.pc = "zerodivision"]
  /\ UNCHANGED <<mainVars, nm>>

\* lines 98-106, for file g.i of the listing
GridPlace ==
  /\ g.pc = "place"
  /\ g.i < g.n
  /\ g' = [g EXCEPT !.i = g.i + 1,
                    !.cells = Append(g.cells, PastePos(g.i, g.cols, g.lw, g.lh))]
  /\ UNCHANGED <<mainVars, nm>>

\* lines 108-111
GridSave ==
  /\ g.pc = "place"
  /\ g.i = g.n
  /\ g' = [g EXCEPT !.pc = "saved"]
  /\ UNCHANGED <<mainVars, nm>>

NextGrid == GridCompute \/ GridPlace \/ GridSave

SpecGrid == InitGrid /\ [][NextGrid]_vars

(***************************************************************************)
(* The name normalisation of lines 48-50 over all short names              *)
(***************************************************************************)
NameChars == {"a", ".", "p", "n", "g"}

InitNorm ==
  /\ InitMainIdle
  /\ g = GIdle
  /\ \E name \in SeqsUpTo(NameChars, MaxNameLen) :
       nm = [pc |-> "in", name |-> name, out |-> <<>>, outPng |-> <<>>]

\* lines 49-50 applied to a record named nm.name and to one named nm.name + ".png"
NormApply ==
  /\ nm.pc = "in"
  /\ nm' = [nm EXCEPT !.pc = "out", !.out = Normalize(nm.name),
                      !.outPng = Normalize(nm.name \o Png)]
  /\ UNCHANGED <<mainVars, g>>

NextNorm == NormApply

SpecNorm == InitNorm /\ [][NextNorm]_vars

(***************************************************************************)
(* Properties                                                              *)
(***************************************************************************)
\* a name ends with the four characters ".png"
HasPngSuffix(s) ==
  /\ Len(s) >= 4
  /\ s[Len(s) - 3] = "." /\ s[Len(s) - 2] = "p" /\ s[Len(s) - 1] = "n" /\ s[Len(s)] = "g"

\* the file a record name stands for
ExpectedFile(name) == IF HasPngSuffix(name) THEN name ELSE name \o <<".", "p", "n", "g">>

ExpectedFiles == {ExpectedFile(xml.subs[k].name) : k \in 1..Len(xml.subs)}

\* extract_subtextures has returned in a run that found the directory empty,
\* and nothing else has written since
ExtractedIntoEmpty == extractOk /\ dir0 = EmptyDir /\ sheetWrites = 0

\* C1 as stated: after extraction of a valid descriptor into an empty
\* directory, there are as many files as SubTexture records.
C1_FilesEqualRecords ==
  ExtractedIntoEmpty => Cardinality(DOMAIN dir) = Len(xml.subs)

\* C1 amended: after extraction of a valid descriptor into an empty directory,
\* the files are exactly the distinct suffix-normalised record names; there are
\* as many files as records exactly when no two records normalise to one name.
C1_FilesEqualDistinctNames ==
  ExtractedIntoEmpty =>
    /\ DOMAIN dir = ExpectedFiles
    /\ Cardinality(DOMAIN dir) <= Len(xml.subs)
    /\ (Cardinality(DOMAIN dir) = Len(xml.subs)) <=>
         (\A j, k \in 1..Len(xml.subs) :
            j # k => ExpectedFile(xml.subs[j].name) # ExpectedFile(xml.subs[k].name))

C1_Witness ==
  /\ ExtractedIntoEmpty
  /\ pc = "main"
  /\ Len(xml.subs) = 2
  /\ xml.subs[1].name # xml.subs[2].name
  /\ Cardinality(DOMAIN dir) = 1

\* C2: with a descriptor without records and an empty directory, extraction
\* writes nothing and the packing that follows does not raise in the grid
\* computation.
C2_EmptyPackDoesNotCrash ==
  (xml.wellformed /\ xml.subs = <<>> /\ dir0 = EmptyDir /\ extractOk) =>
    /\ writes = <<>>
    /\ crashAt # "grid"

\* C3: when extraction fails on the descriptor (malformed XML, or a record at
\* any position with a missing or non-integer attribute), that run has written
\* no file.
C3_DescriptorErrorWritesNothing ==
  crashAt \in {"parse", "record"} => writes = <<>>

Disjoint(a, b) ==
  \/ a.x + a.w <= b.x
  \/ b.x + b.w <= a.x
  \/ a.y + a.h <= b.y
  \/ b.y + b.h <= a.y

\* C4: the rectangles that any two pasted files occupy on the canvas are
\* disjoint, whatever the directory holds when it is listed.
C4_PastedNeverOverlap ==
  \A j, k \in 1..Len(placed) : j # k => Disjoint(placed[j], placed[k])

\* C5: for n >= 1 files the grid computation succeeds; the first dimension
\* (columns when maxW >= maxH, rows otherwise) is floor(sqrt(n)), the other is
\* floor(n / first) + 1, and columns * rows > n; one file gets two cells.
C5_GridShape ==
  /\ (g.pc # "off" /\ g.pc # "in" /\ g.n >= 1) => g.pc # "zerodivision"
  /\ g.pc \in {"place", "saved"} =>
       /\ g.n >= 1
       /\ IF g.lw >= g.lh
            THEN /\ g.cols * g.cols <= g.n /\ g.n < (g.cols + 1) * (g.cols + 1)
                 /\ g.rows = (g.n \div g.cols) + 1
            ELSE /\ g.rows * g.rows <= g.n /\ g.n < (g.rows + 1) * (g.rows + 1)
                 /\ g.cols = (g.n \div g.rows) + 1
       /\ g.cols * g.rows > g.n
       /\ g.n = 1 => g.cols * g.rows = 2

C5_Witness ==
  /\ g.pc = "saved"
  /\ g.n = 16
  /\ g.lw < g.lh
  /\ g.rows = 4
  /\ g.cols = 5

\* the run is past the choice of lines 128-134
Decided == extractOk /\ pc # "main"

\* C6: packing is entered only after extraction has returned, never while it
\* runs or after it failed; it is entered exactly when the flag is set or the
\* answer is "y" or "Y"; with the flag set there is no prompt.
C6_EntryOrdering ==
  /\ packStarted => extractOk
  /\ pc = "extract" => ~extractOk /\ ~packStarted /\ ~prompted
  /\ crashAt \in {"parse", "record"} => ~extractOk /\ ~packStarted /\ ~prompted
  /\ flag => ~prompted
  /\ prompted => extractOk
  /\ Decided => (packStarted <=> (flag \/ answer \in {<<"y">>, <<"Y">>}))
  /\ Decided => (prompted <=> ~flag)

C6_Witness ==
  /\ packStarted
  /\ ~flag
  /\ prompted
  /\ answer = <<"Y">>

\* C7: when the previous run only extracted and this run has extracted from
\* the same inputs, the directory is as the previous run left it.
C7_ExtractionIdempotent ==
  (prev.valid /\ extractOk /\ sheetWrites = 0) => dir = prev.d

C7_Witness ==
  /\ prev.valid
  /\ pc = "main"
  /\ Len(writes) = 2
  /\ writes[1] = writes[2]
  /\ xml.subs[1].height # xml.subs[2].height
  /\ dir = prev.d

\* C8: the file name of a record is its name when that ends with ".png" and
\* its name followed by ".png" otherwise; it always ends with ".png", and the
\* names foo and foo.png give the same file foo.png.
C8_NameNormalization ==
  nm.pc = "out" =>
    /\ HasPngSuffix(nm.out)
    /\ HasPngSuffix(nm.name) => nm.out = nm.name
    /\ ~HasPngSuffix(nm.name) => nm.out = nm.name \o <<".", "p", "n", "g">>
    /\ nm.outPng = nm.name \o <<".", "p", "n", "g">>
    /\ ~HasPngSuffix(nm.name) => nm.out = nm.outPng

C8_Witness ==
  /\ nm.pc = "out"
  /\ nm.name = <<"a">>
  /\ nm.out = <<"a", ".", "p", "n", "g">>
  /\ nm.outPng = nm.out

\* C9: the sheet is saved at most once in a run, and only when every listed
\* file has been pasted; a packing that has not saved, in particular one that
\* raised in the grid computation or at a paste, has left the directory as it
\* found it; a packing that saved has changed the composite file only.
C9_PackAtomic ==
  /\ sheetWrites <= 1
  /\ sheetWrites = 1 => packStarted /\ pc = "done" /\ Len(placed) = Len(files)
  /\ (packStarted /\ pc = "done") => sheetWrites = 1
  /\ (packStarted /\ sheetWrites = 0) => dir = dirPack
  /\ (packStarted /\ sheetWrites = 1) =>
       /\ DOMAIN dir = DOMAIN dirPack \cup {ConvertedName(AtlasFile)}
       /\ \A f \in DOMAIN dirPack : f # ConvertedName(AtlasFile) => dir[f] = dirPack[f]

C9_Witness ==
  /\ packStarted
  /\ crashAt = "paste"
  /\ Len(placed) >= 1
  /\ Len(placed) < Len(files)
  /\ sheetWrites = 0
  /\ dir = dirPack

\* file i (from 0) of the grid computation sits at column i mod columns and
\* row i div columns, both inside the grid
CellInGrid(i) ==
  /\ g.cells[i + 1].x = (i % g.cols) * g.lw
  /\ g.cells[i + 1].y = (i \div g.cols) * g.lh
  /\ i % g.cols < g.cols
  /\ i \div g.cols < g.rows

OriginInCanvas(c) ==
  /\ 0 <= c.x /\ c.x < g.lw * g.cols
  /\ 0 <= c.y /\ c.y < g.lh * g.rows

====
